---------------------------- MODULE Spec2Model ----------------------------
(***************************************************************************)
(* A model of eule's DlAllocator (src/allocator.cpp): a boundary-tag       *)
(* allocator with a size-sorted free list over a caller-supplied byte      *)
(* range.                                                                  *)
(*                                                                         *)
(* Memory is modelled word by word.  A Header is four consecutive words    *)
(* (prevSize, thisSize, nextFree, prevFree) at a byte address, so that     *)
(* overlapping headers, stale payload contents and pointers into foreign   *)
(* memory behave as they do on the machine.  The target modelled is one    *)
(* with 2-byte pointers and a maximum scalar alignment of 4 bytes: word    *)
(* arithmetic is modulo 2^16 and, as on the usual 32- and 64-bit targets,  *)
(* max_alignment = 2 * sizeof(void* ) = sizeof(Header) / 2.                *)
(***************************************************************************)
EXTENDS Integers, FiniteSets, Sequences

\* ------------------------------------------------------------ the target
sizeof_size_type == 2
max_alignment == 4
InUse == 1

Modulus == 2 ^ (8 * sizeof_size_type)
SIZE_MAX == Modulus - 1
minimum_alloc_size == 2 * sizeof_size_type
sizeof_Header == 4 * sizeof_size_type
nullptr == 0

\* ------------------------------------------------------------ the bounds
\* Lowest address a caller's buffer may start at, and how far past it.
RegionBase == 8
MaxSkew == 0
\* Longest buffer handed to the constructor, in bytes.
MaxRegionLen == 36
\* Requests are 0 .. MaxRequest bytes, and the MaxWrap largest values of
\* size_t; at most MaxWrapCalls requests of the latter kind are made in a run.
MaxRequest == 9
MaxWrap == 5
MaxWrapCalls == 1

\* The address of the allocator object's m_freeList member: a pointer-aligned
\* location outside every buffer.
FreeListAddr == sizeof_size_type

\* What a word holds before anything was stored to it, and what a load
\* outside the mapped memory yields.
Indeterminate == -1

\* ------------------------------------------------------------ bit tricks
TestInUse(x) == (x \div InUse) % 2 = 1
ClearInUse(x) == IF TestInUse(x) THEN x - InUse ELSE x
SetInUse(x) == IF TestInUse(x) THEN x ELSE x + InUse
\* x & -max_alignment
AlignDown(x) == x - (x % max_alignment)
\* (x + max_alignment - 1) & -max_alignment, in size_t arithmetic
AlignUp(x) == AlignDown((x + max_alignment - 1) % Modulus)

\* ------------------------------------------------------------ memory
\* The words of the buffer [b, e).
RegionWords(b, e) ==
    {a \in b .. (e - sizeof_size_type) : a % sizeof_size_type = 0}

\* A machine state: the buffer's words, the free-list head, and whether the
\* call being executed got into undefined behaviour ("fault": a load of an
\* indeterminate word or an access outside the buffer) or does not return
\* ("hang").
Machine(m, fl) == [mem |-> m, m_freeList |-> fl, err |-> "none"]
Bad(s) == s.err # "none"
Fault(s) == IF Bad(s) THEN s ELSE [s EXCEPT !.err = "fault"]
Hang(s) == IF Bad(s) THEN s ELSE [s EXCEPT !.err = "hang"]

Load(s, a) ==
    IF a = FreeListAddr THEN s.m_freeList
    ELSE IF a \in DOMAIN s.mem THEN s.mem[a]
    ELSE Indeterminate

Store(s, a, v) ==
    IF Bad(s) THEN s
    ELSE IF v < 0 THEN Fault(s)
    ELSE IF a = FreeListAddr THEN [s EXCEPT !.m_freeList = v]
    ELSE IF a \in DOMAIN s.mem THEN [s EXCEPT !.mem[a] = v]
    ELSE Fault(s)

\* ------------------------------------------------------------ Header
prevSizeAt(hd) == hd
thisSizeAt(hd) == hd + sizeof_size_type
nextFreeAt(hd) == hd + 2 * sizeof_size_type
prevFreeAt(hd) == hd + 3 * sizeof_size_type

payloadToHeader(payload) == payload - 2 * sizeof_size_type
toPayload(hd) == hd + 2 * sizeof_size_type

\* x & ~InUse of a loaded size word.
sizeBits(t) == IF t < 0 THEN Indeterminate ELSE ClearInUse(t)

size(s, hd) == sizeBits(Load(s, thisSizeAt(hd)))

previousSize(s, hd) == sizeBits(Load(s, prevSizeAt(hd)))

\* this + sz, as a pointer.
advance(hd, sz) == IF sz < 0 THEN Indeterminate ELSE (hd + sz) % Modulus

next(s, hd) == advance(hd, size(s, hd))

\* next()->prevSize = v
setNextPrevSize(s, hd, v) ==
    LET nx == next(s, hd)
    IN IF Bad(s) THEN s
       ELSE IF nx < 0 THEN Fault(s)
       ELSE Store(s, prevSizeAt(nx), v)

setSizeUsed(s, hd, sz) ==
    setNextPrevSize(Store(s, thisSizeAt(hd), SetInUse(sz)), hd, SetInUse(sz))

setSizeFree(s, hd, sz) ==
    setNextPrevSize(Store(s, thisSizeAt(hd), sz), hd, sz)

\* (t & InUse) ? nullptr : header
ifFree(t, header) ==
    IF t < 0 THEN Indeterminate
    ELSE IF TestInUse(t) THEN nullptr ELSE header

\* (header->thisSize & InUse) ? nullptr : header
headerIfFree(s, header) ==
    IF header < 0 THEN Indeterminate
    ELSE ifFree(Load(s, thisSizeAt(header)), header)

nextIfFree(s, hd) == headerIfFree(s, next(s, hd))

prevIfFree(s, hd) ==
    ifFree(Load(s, prevSizeAt(hd)), (hd - previousSize(s, hd)) % Modulus)

\* The number of loop iterations after which a walk over the buffer's
\* headers must have come back to a header it already visited.
Fuel(s) == Cardinality(DOMAIN s.mem) + 1

\* link's while loop: the slot the chunk is spliced into, Indeterminate when
\* the loop faults, -2 when it never ends.
RECURSIVE linkScan(_, _, _, _)
linkScan(s, hd, iter, fuel) ==
    LET cur == Load(s, iter)
    IN IF cur < 0 THEN Indeterminate
       ELSE IF cur = nullptr THEN iter
       ELSE IF size(s, cur) < 0 \/ size(s, hd) < 0 THEN Indeterminate
       ELSE IF size(s, cur) < size(s, hd)
            THEN IF fuel = 0 THEN -2
                 ELSE linkScan(s, hd, nextFreeAt(cur), fuel - 1)
       ELSE iter

\* *dst = *src
copyWord(s, dst, src) == Store(s, dst, Load(s, src))

\* if (nextFree) nextFree->prevFree = &nextFree;
linkBack(s, hd) ==
    LET nf == Load(s, nextFreeAt(hd))
    IN IF Bad(s) THEN s
       ELSE IF nf < 0 THEN Fault(s)
       ELSE IF nf # nullptr THEN Store(s, prevFreeAt(nf), nextFreeAt(hd))
       ELSE s

\* Lines 129-133: splice the chunk into the slot iter.
splice(s, hd, iter) ==
    IF iter = -2 THEN Hang(s)
    ELSE IF iter < 0 THEN Fault(s)
    ELSE linkBack(Store(copyWord(Store(s, prevFreeAt(hd), iter),
                                 nextFreeAt(hd), iter),
                        iter, hd),
                  hd)

link(s, hd, first) ==
    IF Bad(s) THEN s
    ELSE splice(s, hd, linkScan(s, hd, first, Fuel(s)))

\* *prevFree = nextFree;
unlinkForward(s, hd) ==
    LET pf == Load(s, prevFreeAt(hd))
    IN IF pf < 0 THEN Fault(s)
       ELSE Store(s, pf, Load(s, nextFreeAt(hd)))

\* if (nextFree) nextFree->prevFree = prevFree;
unlinkBack(s, hd) ==
    LET nf == Load(s, nextFreeAt(hd))
        pf == Load(s, prevFreeAt(hd))
    IN IF Bad(s) THEN s
       ELSE IF nf < 0 \/ pf < 0 THEN Fault(s)
       ELSE IF nf # nullptr THEN Store(s, prevFreeAt(nf), pf)
       ELSE s

unlink(s, hd) == unlinkBack(unlinkForward(s, hd), hd)

\* ------------------------------------------------------------ DlAllocator
\* header->next()->thisSize = Header::InUse;
markEnd(s, header) ==
    LET nx == next(s, header)
    IN IF nx < 0 THEN Fault(s)
       ELSE Store(s, thisSizeAt(nx), InUse)

\* Lines 160-164: one free chunk of sz bytes at header, between two in-use
\* marks.
layOut(s, header, sz) ==
    link(markEnd(Store(setSizeFree(s, header, sz), prevSizeAt(header), InUse),
                 header),
         header, FreeListAddr)

\* The allocator object over a buffer [b, e) of indeterminate words, before
\* the constructor's body runs.
Blank(b, e) == Machine([a \in RegionWords(b, e) |-> Indeterminate], nullptr)

\* The constructor with its emptiness test written end < begin.
DlAllocator_strict(b, e) ==
    LET begin1 == AlignUp((b + 2 * sizeof_size_type) % Modulus)
        end1 == AlignDown((e - 2 * sizeof_size_type) % Modulus)
    IN IF end1 < begin1 THEN Blank(b, e)
       ELSE layOut(Blank(b, e), payloadToHeader(begin1), end1 - begin1)

\* The constructor.
DlAllocator(b, e) ==
    LET begin1 == AlignUp((b + 2 * sizeof_size_type) % Modulus)
        end1 == AlignDown((e - 2 * sizeof_size_type) % Modulus)
    IN IF end1 <= begin1 THEN Blank(b, e)
       ELSE layOut(Blank(b, e), payloadToHeader(begin1), end1 - begin1)

\* Lines 169-175: the chunk size a request of numBytes bytes needs, in
\* size_t arithmetic.
NeededSize(numBytes) ==
    LET n1 == IF numBytes <= minimum_alloc_size
              THEN minimum_alloc_size ELSE numBytes
        n2 == (n1 + 2 * sizeof_size_type) % Modulus
    IN AlignUp(n2)

\* allocate's for loop: the first chunk of the free list, from iter on, whose
\* size() is at least numBytes; nullptr when the list ends, Indeterminate when
\* the loop faults, -2 when it never ends.
RECURSIVE findChunk(_, _, _, _)
findChunk(s, iter, numBytes, fuel) ==
    IF iter < 0 THEN Indeterminate
    ELSE IF iter = nullptr THEN nullptr
    ELSE IF size(s, iter) < 0 THEN Indeterminate
    ELSE IF size(s, iter) >= numBytes THEN iter
    ELSE IF fuel = 0 THEN -2
    ELSE findChunk(s, Load(s, nextFreeAt(iter)), numBytes, fuel - 1)

\* Lines 191-193: the remainder of a split chunk becomes a free chunk.
linkRemainder(s, iter, remainingSize) ==
    LET nx == next(s, iter)
    IN link(IF nx < 0 THEN Fault(s) ELSE setSizeFree(s, nx, remainingSize),
            nx, FreeListAddr)

\* Lines 187-198: split the unlinked chunk iter, or use it whole.
split(s, iter, numBytes) ==
    LET sz == size(s, iter)
    IN IF Bad(s) THEN s
       ELSE IF sz < 0 THEN Fault(s)
       ELSE IF (sz - numBytes) % Modulus >= sizeof_Header
            THEN linkRemainder(setSizeUsed(s, iter, numBytes), iter,
                               (sz - numBytes) % Modulus)
       ELSE setSizeUsed(s, iter, sz)

\* Lines 183-198: hand out the matching chunk iter.
takeChunk(s, iter, numBytes) == split(unlink(s, iter), iter, numBytes)

\* return iter->toPayload();
returned(s, iter) ==
    [s |-> s, ret |-> IF Bad(s) THEN nullptr ELSE toPayload(iter)]

\* The outcome of allocate's loop having ended at iter.
found(s, iter, numBytes) ==
    IF iter = -2 THEN [s |-> Hang(s), ret |-> nullptr]
    ELSE IF iter < 0 THEN [s |-> Fault(s), ret |-> nullptr]
    ELSE IF iter = nullptr THEN [s |-> s, ret |-> nullptr]
    ELSE returned(takeChunk(s, iter, numBytes), iter)

allocate(s, n) ==
    found(s, findChunk(s, s.m_freeList, NeededSize(n), Fuel(s)), NeededSize(n))

\* chunkSize += hd->size();
plusSize(s, hd, chunkSize) ==
    LET sz == size(s, hd)
    IN IF sz < 0 THEN Indeterminate ELSE (chunkSize + sz) % Modulus

\* Lines 229-230: write the merged size and link the chunk.
release(s, self, chunkSize) ==
    IF Bad(s) THEN s
    ELSE IF chunkSize < 0 THEN Fault(s)
    ELSE link(setSizeFree(s, self, chunkSize), self, FreeListAddr)

\* Lines 223-224, after prevHeader->unlink().
absorbPrev(s, prevHeader, chunkSize) ==
    release(s, prevHeader, plusSize(s, prevHeader, chunkSize))

\* Lines 220-230: merge with the previous chunk if it is free.
mergePrev(s, self, chunkSize) ==
    LET prevHeader == prevIfFree(s, self)
    IN IF Bad(s) THEN s
       ELSE IF chunkSize < 0 \/ prevHeader < 0 THEN Fault(s)
       ELSE IF prevHeader # nullptr
            THEN absorbPrev(unlink(s, prevHeader), prevHeader, chunkSize)
       ELSE release(s, self, chunkSize)

\* Line 216, after nextHeader->unlink().
absorbNext(s, self, nextHeader, chunkSize) ==
    mergePrev(s, self, plusSize(s, nextHeader, chunkSize))

\* Lines 210-230: merge with the next chunk if it is free.
mergeNext(s, self) ==
    LET chunkSize == size(s, self)
        nextHeader == nextIfFree(s, self)
    IN IF chunkSize < 0 \/ nextHeader < 0 THEN Fault(s)
       ELSE IF nextHeader # nullptr
            THEN absorbNext(unlink(s, nextHeader), self, nextHeader, chunkSize)
       ELSE mergePrev(s, self, chunkSize)

deallocate(s, ptr) == mergeNext(s, payloadToHeader(ptr))

\* The caller owns the payload of a block it was handed, size() minus the two
\* size fields, and may store anything there: these words are indeterminate
\* to the allocator from then on.
handOver(s, ptr) ==
    LET sz == size(s, payloadToHeader(ptr))
    IN IF Bad(s) \/ ptr = nullptr \/ sz < 0 THEN s
       ELSE [s EXCEPT !.mem = [a \in DOMAIN s.mem |->
                IF ptr <= a /\ a < payloadToHeader(ptr) + sz
                THEN Indeterminate ELSE s.mem[a]]]

\* ------------------------------------------------------------ the program
VARIABLES
    mem,        \* the caller's buffer, word address -> word
    m_freeList, \* DlAllocator::m_freeList
    begin, end, \* the range the constructor was given
    status,     \* "ready", or how the last call went wrong
    live,       \* pointers returned by allocate and not yet deallocated
    lastOp,     \* the last call: "construct", "allocate", "deallocate"
    lastArg,    \* its argument
    lastRet,    \* its result (allocate), nullptr otherwise
    nWrap,      \* how many of the WrapRequests were made
    hist        \* the calls of a test run since construction (SpecTests)

vars == <<mem, m_freeList, begin, end, status, live, lastOp, lastArg, lastRet,
          nWrap, hist>>

Heap == Machine(mem, m_freeList)

Begins == RegionBase .. RegionBase + MaxSkew
WrapRequests == (SIZE_MAX - MaxWrap + 1) .. SIZE_MAX
Requests == (0 .. MaxRequest) \cup WrapRequests

\* How a call ended, and the program's state after it.
StatusOf(s) == IF Bad(s) THEN s.err ELSE "ready"
Becomes(s) ==
    /\ mem' = s.mem
    /\ m_freeList' = s.m_freeList
    /\ status' = StatusOf(s)

Init ==
    /\ begin \in Begins
    /\ end \in begin .. begin + MaxRegionLen
    /\ \E s \in {DlAllocator(begin, end)} :
          /\ mem = s.mem
          /\ m_freeList = s.m_freeList
          /\ status = StatusOf(s)
    /\ live = {}
    /\ lastOp = "construct"
    /\ lastArg = 0
    /\ lastRet = nullptr
    /\ nWrap = 0
    /\ hist = <<>>

AllocateCall(n) ==
    /\ status = "ready"
    /\ n \in WrapRequests => nWrap < MaxWrapCalls
    /\ \E r \in {allocate(Heap, n)} :
          /\ Becomes(handOver(r.s, r.ret))
          /\ lastRet' = r.ret
          /\ live' = IF r.ret # nullptr THEN live \cup {r.ret} ELSE live
    /\ lastOp' = "allocate"
    /\ lastArg' = n
    /\ nWrap' = IF n \in WrapRequests THEN nWrap + 1 ELSE nWrap
    /\ UNCHANGED <<begin, end>>

DeallocateCall(ptr) ==
    /\ status = "ready"
    /\ ptr \in live
    /\ Becomes(deallocate(Heap, ptr))
    /\ live' = live \ {ptr}
    /\ lastOp' = "deallocate"
    /\ lastArg' = ptr
    /\ UNCHANGED nWrap
    /\ lastRet' = nullptr
    /\ UNCHANGED <<begin, end>>

\* Any program: any call at any time.
Allocate(n) == AllocateCall(n) /\ UNCHANGED hist
Deallocate(ptr) == DeallocateCall(ptr) /\ UNCHANGED hist

Next ==
    \/ \E n \in Requests : Allocate(n)
    \/ \E ptr \in live : Deallocate(ptr)

Spec == Init /\ [][Next]_vars

\* ------------------------------------------------------------ views
\* The first header and the end sentinel the constructor lays out.
firstHeader == payloadToHeader(AlignUp((begin + 2 * sizeof_size_type) % Modulus))
sentinel == payloadToHeader(AlignDown((end - 2 * sizeof_size_type) % Modulus))
Interior == sentinel - firstHeader
Degenerate == Interior <= 0

\* The headers met walking from hd by next() up to the sentinel; a walk that
\* does not arrive there (a size of zero or an indeterminate one, a step past
\* the sentinel) ends in Indeterminate.
RECURSIVE walk(_, _, _)
walk(s, hd, fuel) ==
    IF hd = sentinel THEN <<>>
    ELSE IF hd > sentinel \/ hd < firstHeader \/ fuel = 0 THEN <<Indeterminate>>
    ELSE LET sz == size(s, hd)
         IN IF sz <= 0 THEN <<Indeterminate>>
            ELSE <<hd>> \o walk(s, hd + sz, fuel - 1)

Chunks == IF Degenerate THEN <<>> ELSE walk(Heap, firstHeader, Fuel(Heap))
WalkArrives == \A i \in 1 .. Len(Chunks) : Chunks[i] # Indeterminate

\* The headers met following nextFree from hd; a traversal that meets an
\* indeterminate link or does not end stops in Indeterminate.
RECURSIVE follow(_, _, _)
follow(s, hd, fuel) ==
    IF hd = nullptr THEN <<>>
    ELSE IF hd < 0 \/ fuel = 0 \/ size(s, hd) < 0 THEN <<Indeterminate>>
    ELSE <<hd>> \o follow(s, Load(s, nextFreeAt(hd)), fuel - 1)

FreeList == follow(Heap, m_freeList, Fuel(Heap))
FreeListEnds == \A i \in 1 .. Len(FreeList) : FreeList[i] # Indeterminate

Range(q) == {q[i] : i \in 1 .. Len(q)}
RECURSIVE Sum(_, _)
Sum(f, S) == IF S = {} THEN 0
             ELSE LET x == CHOOSE y \in S : TRUE IN f[x] + Sum(f, S \ {x})

\* What a test can observe of a machine state: the chunks in address order
\* (header, size, in-use flag) and the free list in list order.
View(s) ==
    LET w == walk(s, firstHeader, Fuel(s))
    IN [chunks |-> [i \in 1 .. Len(w) |->
                      <<w[i], size(s, w[i]),
                        TestInUse(Load(s, thisSizeAt(w[i])))>>],
        free |-> follow(s, s.m_freeList, Fuel(s))]

\* ------------------------------------------------------------ test programs
\* The programs of the round-trip and the coalescing tests, on a fresh
\* allocator:  p = allocate(S); deallocate(p); allocate(S)  and
\* A = allocate(a); B = allocate(b); deallocate both in either order;
\* allocate(usable size of A and B combined).  hist records the calls made.
Call(op, arg, ret, sz) == [op |-> op, arg |-> arg, ret |-> ret, sz |-> sz]
Ops == [i \in 1 .. Len(hist) |-> hist[i].op]
Succeeded(i) == hist[i].op = "allocate" /\ hist[i].ret # nullptr
CombinedUsable == hist[1].sz + hist[2].sz - 2 * sizeof_size_type

TestRequests ==
    IF Ops = <<"allocate", "allocate", "deallocate", "deallocate">>
    THEN {CombinedUsable}
    ELSE IF Ops = <<"allocate", "deallocate">> THEN {hist[1].arg}
    ELSE IF hist = <<>> \/ (Ops = <<"allocate">> /\ Succeeded(1)) THEN Requests
    ELSE {}

TestAllocate(n) ==
    /\ AllocateCall(n)
    /\ hist' = Append(hist, Call("allocate", n, lastRet',
                 IF lastRet' = nullptr THEN 0
                 ELSE size(Machine(mem', m_freeList'), payloadToHeader(lastRet'))))

TestDeallocate(ptr) ==
    /\ \/ Ops = <<"allocate">> /\ Succeeded(1)
       \/ Ops = <<"allocate", "allocate">> /\ Succeeded(1) /\ Succeeded(2)
       \/ Ops = <<"allocate", "allocate", "deallocate">>
    /\ DeallocateCall(ptr)
    /\ hist' = Append(hist, Call("deallocate", ptr, nullptr, 0))

TestNext ==
    \/ \E n \in TestRequests : TestAllocate(n)
    \/ \E ptr \in live : TestDeallocate(ptr)

SpecTests == Init /\ [][TestNext]_vars

\* ------------------------------------------------------------ the claims
Ready == status = "ready"

\* The needed chunk size as the specification words it: the request clamped
\* to the minimum payload, plus the header overhead, rounded up to
\* max_alignment, as a number (no wrap-around).
ExactNeeded(n) ==
    LET n1 == IF n <= minimum_alloc_size THEN minimum_alloc_size ELSE n
        n2 == n1 + 2 * sizeof_size_type
    IN ((n2 + max_alignment - 1) \div max_alignment) * max_alignment

UsableSize(s, ptr) == size(s, payloadToHeader(ptr)) - 2 * sizeof_size_type

\* C1: a successful allocate(n) returns the payload of a chunk whose usable
\* size, size() minus the two size fields, is at least n, for every n of
\* size_t.
C1_UsableAtLeastRequested ==
    lastOp = "allocate" /\ lastRet # nullptr
        => UsableSize(Heap, lastRet) >= lastArg

\* C2: allocate(n) returns null exactly when no chunk of the free list has
\* size() >= the needed chunk size, and a call that returns null changes no
\* header, link or list head.
C2_NullExactlyWhenNoFit ==
    [][lastOp' = "allocate" /\ status' = "ready" /\ FreeListEnds
         => /\ lastRet' = nullptr
                <=> ~ \E h \in Range(FreeList) :
                        size(Heap, h) >= ExactNeeded(lastArg')
            /\ lastRet' = nullptr => mem' = mem /\ m_freeList' = m_freeList]_vars

\* C3: after any sequence of calls, the walk from the first header by next()
\* arrives at the end sentinel and the sizes of the chunks it visits sum to
\* the aligned interior size.
C3_Conservation ==
    Ready /\ ~Degenerate
        => /\ WalkArrives
           /\ Sum([h \in Range(Chunks) |-> size(Heap, h)], Range(Chunks))
                = Interior

\* C4: a full traversal of the free list from m_freeList along nextFree visits
\* chunks in non-decreasing size() order.
C4_FreeListSorted ==
    Ready /\ FreeListEnds
        => \A i \in 1 .. Len(FreeList) - 1 :
               size(Heap, FreeList[i]) <= size(Heap, FreeList[i + 1])

\* C5: on a fresh allocator, after A = allocate(a), B = allocate(b) adjacent
\* to A, and the deallocation of both in either order, the free list holds
\* one chunk of size sizeOf(A) + sizeOf(B) exactly, and an allocate of the
\* combined usable size then succeeds.
Adjacent ==
    payloadToHeader(hist[2].ret) = payloadToHeader(hist[1].ret) + hist[1].sz
BothFreed == Ops = <<"allocate", "allocate", "deallocate", "deallocate">>
C5_CoalescingCompleteness ==
    /\ BothFreed /\ Adjacent
         => /\ Ready
            /\ FreeListEnds /\ Len(FreeList) = 1
            /\ size(Heap, FreeList[1]) = hist[1].sz + hist[2].sz
    /\ Len(hist) = 5 /\ Adjacent => hist[5].ret # nullptr

\* C6: on a fresh allocator, p = allocate(S) (succeeding); deallocate(p);
\* q = allocate(S) gives q = p, and after deallocate(p) the chunks, flags and
\* free list are those the constructor left.
C6_RoundTrip ==
    /\ Ops = <<"allocate", "deallocate">>
         => Ready /\ View(Heap) = View(DlAllocator(begin, end))
    /\ Ops = <<"allocate", "deallocate", "allocate">>
         => hist[3].ret = hist[1].ret

\* C7: when the aligned range has end <= begin the constructor writes no
\* header, m_freeList stays null and every allocate, whatever the request,
\* returns null.
C7_DegenerateRegion ==
    Degenerate
        => /\ Ready
           /\ m_freeList = nullptr
           /\ \A a \in DOMAIN mem : mem[a] = Indeterminate
           /\ lastOp = "allocate" => lastRet = nullptr
           /\ live = {}
\* C7's case: an allocate call on an allocator whose aligned range is empty
\* (end = begin after alignment).
C7_Witness ==
    Interior = 0 /\ lastOp = "allocate" /\ lastArg = 0 /\ lastRet = nullptr

\* C8: on a region that is one chunk of size S, a request whose needed chunk
\* size exceeds S returns null; a request whose needed chunk size is exactly
\* S succeeds on the fresh allocator, and while that block is in use every
\* allocate returns null.
WholeInUse ==
    /\ ~Degenerate
    /\ Load(Heap, thisSizeAt(firstHeader)) = SetInUse(Interior)
C8_ExhaustionBoundary ==
    [][lastOp' = "allocate" /\ ~Degenerate
         => /\ ExactNeeded(lastArg') > Interior => lastRet' = nullptr
            /\ lastOp = "construct" /\ ExactNeeded(lastArg') = Interior
                 => lastRet' = toPayload(firstHeader)
            /\ WholeInUse => lastRet' = nullptr]_vars

\* C9: every non-null pointer allocate returns is a multiple of
\* max_alignment.
C9_PayloadAligned ==
    lastOp = "allocate" /\ lastRet # nullptr => lastRet % max_alignment = 0

\* C10: over a non-degenerate range every chunk's size() is a multiple of
\* max_alignment and at least sizeof(Header), so the link fields of a free
\* chunk lie before the header of the chunk that follows it.
C10_ChunkSizes ==
    Ready /\ ~Degenerate /\ WalkArrives
        => \A h \in Range(Chunks) :
               /\ size(Heap, h) % max_alignment = 0
               /\ size(Heap, h) >= sizeof_Header
               /\ prevFreeAt(h) < prevSizeAt(next(Heap, h))

\* The in-use bit of a loaded size word is set.
MarkedInUse(t) == t >= 0 /\ TestInUse(t)

\* C11: after a non-degenerate construction the prevSize of the first chunk
\* and the thisSize of the end sentinel always have the in-use bit set, so
\* prevIfFree() on the first chunk and nextIfFree() on the last chunk are
\* null.
C11_SealedEnds ==
    Ready /\ ~Degenerate
        => /\ MarkedInUse(Load(Heap, prevSizeAt(firstHeader)))
           /\ MarkedInUse(Load(Heap, thisSizeAt(sentinel)))
           /\ prevIfFree(Heap, firstHeader) = nullptr
           /\ WalkArrives
                => nextIfFree(Heap, Chunks[Len(Chunks)]) = nullptr

\* C12: after construction and after every completed call, for every chunk C
\* the prevSize field of C.next() equals C.thisSize, size and in-use bit
\* alike.
C12_MirroredTag ==
    Ready /\ ~Degenerate /\ WalkArrives
        => \A h \in Range(Chunks) :
               Load(Heap, prevSizeAt(next(Heap, h)))
                   = Load(Heap, thisSizeAt(h))

\* C13: the walk from the first header by size() arrives at the end sentinel
\* exactly, and the headers it visits are those of the chunks there are: each
\* block in use is one of them, and each of them that is marked in use is a
\* block in use.
C13_Tiling ==
    Ready /\ ~Degenerate
        => /\ WalkArrives
           /\ \A p \in live : payloadToHeader(p) \in Range(Chunks)
           /\ \A h \in Range(Chunks) :
                  MarkedInUse(Load(Heap, thisSizeAt(h)))
                      => toPayload(h) \in live

\* The payloads of the blocks in use lie in the constructor's range and are
\* pairwise disjoint.
LiveDisjoint ==
    /\ \A p \in live :
           /\ size(Heap, payloadToHeader(p)) >= 0
           /\ begin <= p /\ p + UsableSize(Heap, p) <= end
    /\ \A p, q \in live :
           p < q => p + UsableSize(Heap, p) <= q

\* C14: the payload ranges [p, p + usable size) of the blocks returned by
\* allocate and not yet deallocated are pairwise disjoint and inside the
\* range given to the constructor, and allocate never returns the pointer of
\* a block still in use.
C14_LiveBlocksDisjoint ==
    [][status' = "ready"
         => /\ LiveDisjoint'
            /\ lastOp' = "allocate" /\ lastRet' # nullptr
                 => lastRet' \notin live]_vars

\* C15: for every chunk C of the free list the slot C.prevFree addresses is
\* the one that points to C: m_freeList when C is first, the nextFree field
\* of C's predecessor otherwise.
C15_BackPointers ==
    Ready /\ FreeListEnds
        => \A i \in 1 .. Len(FreeList) :
               /\ Load(Heap, prevFreeAt(FreeList[i]))
                    = IF i = 1 THEN FreeListAddr
                      ELSE nextFreeAt(FreeList[i - 1])
               /\ Load(Heap, Load(Heap, prevFreeAt(FreeList[i]))) = FreeList[i]

\* The chunks the walk visits whose in-use bit is clear.
FreeChunks == {h \in Range(Chunks) : ~MarkedInUse(Load(Heap, thisSizeAt(h)))}

\* C16: a chunk has its in-use bit clear if and only if it is reachable from
\* m_freeList along nextFree, each such chunk is in the list exactly once,
\* and no block in use is in the list.
C16_FreeListIsFreeChunks ==
    Ready /\ ~Degenerate /\ WalkArrives
        => /\ FreeListEnds
           /\ Range(FreeList) = FreeChunks
           /\ Len(FreeList) = Cardinality(Range(FreeList))
           /\ \A p \in live : payloadToHeader(p) \notin Range(FreeList)

\* C17: no free chunk is immediately followed in memory by another free
\* chunk; and once every block was deallocated the free list is one chunk, at
\* the first header, of the size of the whole aligned interior.
C17_NoAdjacentFree ==
    Ready /\ ~Degenerate /\ WalkArrives
        => /\ \A i \in 1 .. Len(Chunks) - 1 :
                  ~ (Chunks[i] \in FreeChunks /\ Chunks[i + 1] \in FreeChunks)
           /\ live = {}
                => /\ FreeListEnds
                   /\ FreeList = <<firstHeader>>
                   /\ size(Heap, firstHeader) = Interior

\* The positions of the free list whose chunk has room for a chunk of n
\* bytes.
Fits(n) == {i \in 1 .. Len(FreeList) : size(Heap, FreeList[i]) >= n}

\* C18: a successful allocate hands out the first chunk in free-list order
\* whose size() is at least the needed chunk size, and no free chunk that is
\* large enough is strictly smaller than it.
C18_FitSelection ==
    [][lastOp' = "allocate" /\ lastRet' # nullptr /\ FreeListEnds
         => /\ Fits(ExactNeeded(lastArg')) # {}
            /\ \E i \in Fits(ExactNeeded(lastArg')) :
                  /\ FreeList[i] = payloadToHeader(lastRet')
                  /\ \A j \in Fits(ExactNeeded(lastArg')) :
                         /\ i <= j
                         /\ size(Heap, FreeList[i]) <= size(Heap, FreeList[j])]_vars

\* The machine state after the step.
HeapAfter == Machine(mem', m_freeList')

\* What C19 says of an allocate that matched the free chunk h of size F for
\* the needed chunk size N.
SplitOutcome(h, F, N) ==
    /\ F >= N
    /\ IF F - N >= sizeof_Header
       THEN /\ Load(HeapAfter, thisSizeAt(h)) = SetInUse(N)
            /\ Load(HeapAfter, thisSizeAt(h + N)) = F - N
            /\ FreeListEnds'
            /\ Range(FreeList') = (Range(FreeList) \ {h}) \cup {h + N}
       ELSE /\ Load(HeapAfter, thisSizeAt(h)) = SetInUse(F)
            /\ FreeListEnds'
            /\ Range(FreeList') = Range(FreeList) \ {h}

\* C19: an allocate that matches a free chunk of size F for a needed chunk
\* size N splits exactly when F - N >= sizeof(Header); on a split the chunk
\* returned is marked used with size N and a free chunk of size F - N at
\* offset N is in the free list; otherwise the chunk returned is marked used
\* with size F and no chunk is added to the free list.
C19_SplitRule ==
    [][lastOp' = "allocate" /\ lastRet' # nullptr /\ status' = "ready"
           /\ FreeListEnds /\ size(Heap, payloadToHeader(lastRet')) >= 0
         => SplitOutcome(payloadToHeader(lastRet'),
                         size(Heap, payloadToHeader(lastRet')),
                         ExactNeeded(lastArg'))]_vars

\* The free chunks next to the chunk c in memory, and c itself.
Merged(c) ==
    {c} \cup {h \in FreeChunks : next(Heap, h) = c \/ next(Heap, c) = h}
\* The one of them at the lowest address, and their sizes added up.
Survivor(c) == CHOOSE h \in Merged(c) : \A g \in Merged(c) : h <= g
MergedSize(c) == Sum([h \in Merged(c) |-> size(Heap, h)], Merged(c))
\* The free list before and after the step, without the chunks merged.
OthersBefore(c) == SelectSeq(FreeList, LAMBDA h : h \notin Merged(c))
OthersAfter(c) == SelectSeq(FreeList', LAMBDA h : h \notin Merged(c))

\* What C20 says of deallocate on the used chunk c.
MergeOutcome(c) ==
    /\ WalkArrives' /\ FreeListEnds'
    /\ Load(HeapAfter, thisSizeAt(Survivor(c))) = MergedSize(c)
    /\ Range(Chunks') = (Range(Chunks) \ Merged(c)) \cup {Survivor(c)}
    /\ \A h \in Range(Chunks) \ Merged(c) :
           Load(HeapAfter, thisSizeAt(h)) = Load(Heap, thisSizeAt(h))
    /\ Range(FreeList') = (Range(FreeList) \ Merged(c)) \cup {Survivor(c)}
    /\ Len(FreeList') = Cardinality(Range(FreeList'))
    /\ OthersAfter(c) = OthersBefore(c)

\* C20: deallocate(p) of a used chunk C leaves one free chunk of the size of
\* C plus that of its free neighbours, at the lowest of their headers; the
\* neighbours merged are removed from the free list, the result is in it
\* once, and all other chunks keep size, flag and relative list order.
C20_MergeRule ==
    [][lastOp' = "deallocate" /\ status' = "ready"
           /\ WalkArrives /\ FreeListEnds
           /\ payloadToHeader(lastArg') \in Range(Chunks)
         => MergeOutcome(payloadToHeader(lastArg'))]_vars

=============================================================================
